---- MODULE Spec2Model ----
(***************************************************************************)
(* Plinx request-dispatch pipeline: route table, handler resolution,       *)
(* exception policy, middleware chain and response finalization, as the    *)
(* code under src/plinx implements them.                                   *)
(***************************************************************************)
EXTENDS Integers, Sequences, FiniteSets, TLC

VARIABLES
    routes,             \* Plinx.routes: insertion-ordered dict, as a sequence of entries
    exception_handler,  \* Plinx.exception_handler
    middleware,         \* Plinx.middleware.app: the chain of layers, outermost first
    raised,             \* exception the last registration call ended with (NoError if it returned)
    returned,           \* what the last registration call returned (NONE for None)
    pc,                 \* per call: position in the dispatch of that call
    request,            \* per call: the request (method, path)
    stack,              \* per call: the chain of layers the call entered through
    idx,                \* per call: the place in its chain of the layer whose hook runs next
    response,           \* per call: the PlinxResponse object of the call
    found,              \* per call: what find_handler returned
    exc,                \* per call: the exception in flight (NONE if none)
    trace,              \* per call: the calls observed so far, in order
    sent,               \* per call: what the transport was given after finalization
    hookret,            \* per call: the last response object a process_response hook returned
    resource,           \* per call: the resource instance handler() made for the call
    outcome,            \* what the last call of a function of methods.py gave
    db,                 \* Database.connection: the tables of the SQLite file
    inst,               \* the Table instances the program holds, by name
    result              \* the outcome of the most recent Database call

vars == <<routes, exception_handler, middleware, raised, returned, pc, request, stack,
          idx, response, found, exc, trace, sent, hookret, resource, outcome, db, inst,
          result>>

\* the application's variables and the mapper's
web == <<routes, exception_handler, middleware, raised, returned, pc, request, stack,
         idx, response, found, exc, trace, sent, hookret, resource, outcome>>
orm == <<db, inst, result>>

config == <<routes, exception_handler, middleware>>
percall == <<pc, request, stack, idx, response, found, exc, trace, sent, hookret, resource>>

-----------------------------------------------------------------------------
(* Bounds of the model *)

MaxRoutes == 2
MaxLayers == 2

NONE == "<None>"

\* Call slots. Spec runs one call at a time, as a single-threaded server does.
AllCalls == {"c1", "c2"}
SeqCalls == {"c1"}

-----------------------------------------------------------------------------
(* methods.py, status_codes.py *)

HTTPMethods == {"GET", "HEAD", "PUT", "DELETE", "OPTIONS", "POST", "PATCH"}

OK == 200
NOT_FOUND == 404
METHOD_NOT_ALLOWED == 405
INTERNAL_SERVER_ERROR == 500

\* a slip in the attribute lookup: the verb is used as it came
LowerOmitted(s) == s

\* str.lower() on the verbs and characters the model uses
Lower(s) ==
    CASE s = "GET" -> "get"
      [] s = "HEAD" -> "head"
      [] s = "PUT" -> "put"
      [] s = "DELETE" -> "delete"
      [] s = "OPTIONS" -> "options"
      [] s = "POST" -> "post"
      [] s = "PATCH" -> "patch"
      [] s = "TRACE" -> "trace"
      [] s = "A" -> "a"
      [] OTHER -> s

\* StatusCodes.<X>.name.replace("_", " ").title() for the names the code formats
Title(w) ==
    CASE w = "NOT" -> "Not"
      [] w = "FOUND" -> "Found"
      [] OTHER -> w

RECURSIVE JoinTitled(_)
JoinTitled(ws) ==
    IF ws = <<>> THEN ""
    ELSE IF Len(ws) = 1 THEN Title(ws[1])
    ELSE Title(ws[1]) \o " " \o JoinTitled(Tail(ws))

\* StatusCodes.NOT_FOUND.name, split at its underscores
NOT_FOUND_name == <<"NOT", "FOUND">>

-----------------------------------------------------------------------------
(* Paths and patterns. A path is a sequence of characters; a pattern is a   *)
(* sequence of literal characters and {name} / {name:d} fields.             *)

Lit(c) == [k |-> "lit", c |-> c, name |-> "", ty |-> ""]
Field(n, ty) == [k |-> "field", c |-> "", name |-> n, ty |-> ty]

RECURSIVE Join(_)
Join(s) == IF s = <<>> THEN "" ELSE Head(s) \o Join(Tail(s))

\* the pattern as the string the program registers it under
PatternText(p) ==
    LET RECURSIVE T(_)
        T(q) == IF q = <<>> THEN ""
                ELSE LET t == Head(q) IN
                     (IF t.k = "lit" THEN t.c
                      ELSE IF t.ty = "" THEN "{" \o t.name \o "}"
                      ELSE "{" \o t.name \o ":" \o t.ty \o "}") \o T(Tail(q))
    IN T(p)

Digits == {"0", "1", "2", "3", "4", "5", "6", "7", "8", "9"}

DigitValue(c) ==
    CASE c = "0" -> 0 [] c = "1" -> 1 [] c = "2" -> 2 [] c = "3" -> 3 [] c = "4" -> 4
      [] c = "5" -> 5 [] c = "6" -> 6 [] c = "7" -> 7 [] c = "8" -> 8 [] c = "9" -> 9

\* int(text) for a run of decimal digits
RECURSIVE ToInt(_)
ToInt(s) == IF s = <<>> THEN 0 ELSE 10 * ToInt(SubSeq(s, 1, Len(s) - 1)) + DigitValue(s[Len(s)])

AllDigits(s) == \A i \in 1..Len(s) : s[i] \in Digits

StrValue(s) == [ty |-> "str", s |-> Join(s), n |-> 0]
IntValue(s) == [ty |-> "int", s |-> "", n |-> ToInt(s)]

NoMatch == [ok |-> FALSE, named |-> <<>>]

\* parse(pattern, path) of the parse library, as find_handler calls it: the whole
\* path must match; literals compare case-insensitively; {name} takes the shortest
\* non-empty run of any characters that lets the rest match; {name:d} takes a run
\* of digits and converts it to an integer. The result is None (NoMatch) or the
\* named fields, here in pattern order as <<name, value>> pairs.
RECURSIVE ParseFrom(_, _), TryField(_, _, _, _), TryFieldUntyped(_, _, _, _)
ParseFrom(p, s) ==
    IF p = <<>> THEN (IF s = <<>> THEN [ok |-> TRUE, named |-> <<>>] ELSE NoMatch)
    ELSE LET t == Head(p) IN
         IF t.k = "lit"
         THEN IF s # <<>> /\ Lower(Head(s)) = Lower(t.c) THEN ParseFrom(Tail(p), Tail(s))
              ELSE NoMatch
         ELSE TryField(t, Tail(p), s, IF t.ty = "d" THEN Len(s) ELSE 1)

\* a slip in the matching of a field: its type is not applied, any text is taken
TryFieldUntyped(t, rest, s, n) ==
    IF n < 1 \/ n > Len(s) THEN NoMatch
    ELSE LET taken == SubSeq(s, 1, n)
             r == ParseFrom(rest, SubSeq(s, n + 1, Len(s)))
         IN IF r.ok
            THEN [ok |-> TRUE, named |-> <<<<t.name, StrValue(taken)>>>> \o r.named]
            ELSE TryFieldUntyped(t, rest, s, n - 1)

TryField(t, rest, s, n) ==
    IF n < 1 \/ n > Len(s) THEN NoMatch
    ELSE LET taken == SubSeq(s, 1, n)
             fits == t.ty # "d" \/ AllDigits(taken)
             r == IF fits THEN ParseFrom(rest, SubSeq(s, n + 1, Len(s))) ELSE NoMatch
             next == IF t.ty = "d" THEN n - 1 ELSE n + 1
         IN IF r.ok
            THEN [ok |-> TRUE,
                  named |-> <<<<t.name, IF t.ty = "d" THEN IntValue(taken) ELSE StrValue(taken)>>>>
                            \o r.named]
            ELSE TryField(t, rest, s, next)

parse(p, s) == ParseFrom(p, s)

-----------------------------------------------------------------------------
(* response.py *)

Bytes(s) == [b |-> s]

\* PlinxResponse.__init__
Response ==
    [json |-> NONE, text |-> NONE, content_type |-> NONE, body |-> Bytes(""),
     status_code |-> OK, headers |-> {}]

\* json.dumps(value) for the values handlers of the model store in response.json
JsonValues == {"{'a': 1}", "'boom'"}

JsonDumps(j) ==
    CASE j = "{'a': 1}" -> "{\"a\": 1}"
      [] j = "'boom'" -> "\"boom\""

\* headers[name] = value on a dict kept as a set of <<name, value>> pairs
SetHeader(h, name, value) == {e \in h : e[1] # name} \cup {<<name, value>>}

\* a slip in set_body_and_content_type: the text is looked at before the json
set_body_text_first(r) ==
    LET r1 == IF r.text # NONE
              THEN [r EXCEPT !.body = Bytes(r.text), !.content_type = "text/plain"]
              ELSE IF r.json # NONE
              THEN [r EXCEPT !.body = Bytes(JsonDumps(r.json)),
                             !.content_type = "application/json"]
              ELSE r
    IN IF r1.content_type # NONE
       THEN [r1 EXCEPT !.headers = SetHeader(r1.headers, "Content-Type", r1.content_type)]
       ELSE r1

\* PlinxResponse.set_body_and_content_type
set_body_and_content_type(r) ==
    LET r1 == IF r.json # NONE
              THEN [r EXCEPT !.body = Bytes(JsonDumps(r.json)),
                             !.content_type = "application/json"]
              ELSE IF r.text # NONE
              THEN [r EXCEPT !.body = Bytes(r.text), !.content_type = "text/plain"]
              ELSE r
    IN IF r1.content_type # NONE
       THEN [r1 EXCEPT !.headers = SetHeader(r1.headers, "Content-Type", r1.content_type)]
       ELSE r1

\* what WebObResponse is built from in PlinxResponse.__call__
Transport(r) ==
    [status |-> r.status_code, body |-> r.body, content_type |-> r.content_type,
     headers |-> r.headers]

NotSent == [status |-> 0, body |-> Bytes(""), content_type |-> NONE, headers |-> {}]

\* no response object: what a process_response hook that returns None leaves
NoReplacement ==
    [json |-> NONE, text |-> NONE, content_type |-> NONE, body |-> Bytes(""),
     status_code |-> 0, headers |-> {}]

\* a slip in handle_404: the status code is left at its default
handle_404_text_only(r) == [r EXCEPT !.text = JoinTitled(NOT_FOUND_name)]

\* utils.handle_404
handle_404(r) ==
    [r EXCEPT !.status_code = NOT_FOUND, !.text = JoinTitled(NOT_FOUND_name)]

-----------------------------------------------------------------------------
(* User code: handlers, resources, exception handlers, middleware classes   *)

FunctionHandlers == {"f"}
ClassHandlers == {"Res"}
Handlers == FunctionHandlers \cup ClassHandlers

\* resource classes beyond those of Handlers: a view with a get and a trace method
Resources == ClassHandlers \cup {"Tracer"}

\* a slip in handle_request: no handler is taken for a class
isclass_never(h) == FALSE

\* inspect.isclass / inspect.isfunction on what a route holds
isclass(h) == h \in Resources
isfunction(h) == h \in FunctionHandlers

\* a slip in the lookup: only the methods named by the seven verbs are found
AttrsOfVerbs(h) == IF h \in {"Res", "Tracer"} THEN {"get"} ELSE {}

\* the methods a resource class defines (Res: a view with a get method only)
Attrs(h) ==
    IF h = "Res" THEN {"get"} ELSE IF h = "Tracer" THEN {"get", "trace"} ELSE {}

\* no resource instance; handler(): a new instance of the class, nothing written
\* to it; what a method of the instance leaves when it writes to self
NoResource == [cls |-> NONE, hits |-> 0]
New(h) == [cls |-> h, hits |-> 0]
Touch(x) == [x EXCEPT !.hits = @ + 1]

\* What a callback (function handler, resource method, exception handler) does
\* when called with a response: the attributes it assigns, then whether it raises.
\* status 0 and NONE stand for an attribute left alone.
Effect(st, tx, js, ex) == [status |-> st, text |-> tx, json |-> js, raises |-> ex]

Effects ==
    { Effect(0, "hello", NONE, NONE),
      Effect(0, NONE, "{'a': 1}", NONE),
      Effect(201, "hello", NONE, NONE),
      Effect(0, NONE, NONE, "boom"),
      Effect(0, NONE, "{'a': 1}", "boom") }

\* a slip in a callback's access to the response: it writes to a copy
ApplyToCopy(r, e) == r

Apply(r, e) ==
    [r EXCEPT !.status_code = IF e.status = 0 THEN @ ELSE e.status,
              !.text = IF e.text = NONE THEN @ ELSE e.text,
              !.json = IF e.json = NONE THEN @ ELSE e.json]

\* Middleware subclasses: the hooks of a layer are user code that returns or raises
\* whatever its class, so one class stands for all; a layer is known by the place
\* it was added at
MiddlewareClasses == {"Layer"}

-----------------------------------------------------------------------------
(* Requests *)

Patterns ==
    { <<Lit("/"), Lit("a")>>,
      <<Lit("/"), Field("n", "")>>,
      <<Lit("/"), Field("n", "d")>> }

Paths == { <<"/", "a">>, <<"/", "1", "2">>, <<"/", "b", "/", "x">> }

RequestMethods == {"GET", "POST"}
RouteMethods == {"GET", "POST"}

NoRequest == [method |-> NONE, path |-> <<>>]
NotFound == [hit |-> FALSE, entry |-> [path |-> <<>>, method |-> NONE, handler |-> NONE],
             named |-> <<>>]

Ev(name, layer) == [ev |-> name, layer |-> layer]

\* the trace of a callback's end: nothing when it returns, a raise when it raises
Raise(e) == IF e.raises = NONE THEN <<>> ELSE <<Ev("raise", 0)>>

-----------------------------------------------------------------------------
(* applications.py: the route table *)

Entry(p, m, h) == [path |-> p, method |-> m, handler |-> h]

RoutePaths(rs) == {rs[i].path : i \in 1..Len(rs)}

\* a registration call that returned: nothing raised
NoError == [type |-> NONE, msg |-> ""]

DuplicateRoute(p) ==
    [type |-> "RuntimeError",
     msg |-> "Route '" \o PatternText(p) \o "' is already registered."]

\* a slip in find_handler: the loop does not stop at the first match, the last wins
RECURSIVE FindLast(_, _, _)
FindLast(rs, i, path) ==
    IF i < 1 THEN NotFound
    ELSE LET parse_result == parse(rs[i].path, path) IN
         IF parse_result.ok
         THEN [hit |-> TRUE, entry |-> rs[i], named |-> parse_result.named]
         ELSE FindLast(rs, i - 1, path)

find_handler_last(rs, path) == FindLast(rs, Len(rs), path)

\* Plinx.find_handler: the loop over self.routes.items(), in insertion order
RECURSIVE FindFrom(_, _, _)
FindFrom(rs, i, path) ==
    IF i > Len(rs) THEN NotFound
    ELSE LET parse_result == parse(rs[i].path, path) IN
         IF parse_result.ok
         THEN [hit |-> TRUE, entry |-> rs[i], named |-> parse_result.named]
         ELSE FindFrom(rs, i + 1, path)

find_handler(rs, path) == FindFrom(rs, 1, path)

-----------------------------------------------------------------------------
(* orm.py: table classes, the SQL their methods build, and SQLite executing it *)

\* bound on the calls of save the program makes
MaxSaves == 3

\* None where an id is expected, NULL in a row
NoId == 0

Column(ty) == [kind |-> "Column", type |-> ty, table |-> NONE]
ForeignKey(t) == [kind |-> "ForeignKey", type |-> NONE, table |-> t]

\* the Table subclasses of the program: Author(name), Book(title, author -> Author)
TableClasses == {"Author", "Book"}

\* inspect.getmembers(cls), the Column and ForeignKey members: sorted by name
Members(cls) ==
    IF cls = "Author" THEN << <<"name", Column("str")>> >>
    ELSE << <<"author", ForeignKey("Author")>>, <<"title", Column("str")>> >>

\* cls.__name__.lower()
TableName(cls) == IF cls = "Author" THEN "author" ELSE "book"

\* the column a member is stored in: name, or name + "_id" for a foreign key
FieldOf(m) == IF m[2].kind = "ForeignKey" THEN m[1] \o "_id" ELSE m[1]

\* the loop over inspect.getmembers(cls) that collects the column names
MemberFields(cls) == [i \in 1..Len(Members(cls)) |-> FieldOf(Members(cls)[i])]

\* field.endswith("_id") and field[:-3], on the column names of the program
EndsWithId(field) == field = "author_id"
StripId(field) == IF field = "author_id" THEN "author" ELSE field

\* Table.__init__(**kwargs): _data is {"id": None} updated with the arguments
Table(cls, kwargs) ==
    [cls |-> cls,
     data |-> [k \in {"id"} \cup DOMAIN kwargs |->
                 IF k \in DOMAIN kwargs THEN kwargs[k] ELSE NoId]]

\* Table.__setattr__(key, value): stored in _data when the key is there
SetAttr(x, key, value) ==
    IF key \in DOMAIN x.data THEN [x EXCEPT !.data[key] = value] ELSE x

\* the values of an instance in member order: getattr(self, name) for a Column,
\* getattr(self, name).id for a ForeignKey (objs holds the instances referred to)
MemberValues(objs, x) ==
    [i \in 1..Len(Members(x.cls)) |->
       LET m == Members(x.cls)[i] IN
       IF m[2].kind = "ForeignKey" THEN objs[x.data[m[1]]].data.id ELSE x.data[m[1]]]

\* Table._get_create_sql
_get_create_sql(cls) ==
    [stmt |-> "CREATE TABLE IF NOT EXISTS", name |-> TableName(cls),
     fields |-> <<"id">> \o MemberFields(cls), values |-> <<>>, query |-> <<>>, sep |-> ""]

\* Table._get_insert_sql
_get_insert_sql(objs, x) ==
    [stmt |-> "INSERT", name |-> TableName(x.cls),
     fields |-> MemberFields(x.cls), values |-> MemberValues(objs, x),
     query |-> <<>>, sep |-> ""]

\* Table._get_select_all_sql
_get_select_all_sql(cls) ==
    [stmt |-> "SELECT", name |-> TableName(cls),
     fields |-> <<"id">> \o MemberFields(cls), values |-> <<>>, query |-> <<>>, sep |-> ""]

\* Table._get_select_where_sql(**kwargs): kwargs in call order as <<key, value>>
\* pairs; one "key = ?" per pair, joined with ", "
_get_select_where_sql(cls, kwargs) ==
    [stmt |-> "SELECT WHERE", name |-> TableName(cls),
     fields |-> <<"id">> \o MemberFields(cls),
     values |-> [i \in 1..Len(kwargs) |-> kwargs[i][2]],
     query |-> [i \in 1..Len(kwargs) |-> kwargs[i][1]], sep |-> ", "]

\* Table._get_update_sql: the values of the members, then the id
_get_update_sql(objs, x) ==
    [stmt |-> "UPDATE", name |-> TableName(x.cls),
     fields |-> MemberFields(x.cls),
     values |-> Append(MemberValues(objs, x), x.data.id),
     query |-> <<"id">>, sep |-> ""]

\* Table._get_delete_sql
_get_delete_sql(x) ==
    [stmt |-> "DELETE", name |-> TableName(x.cls), fields |-> <<>>,
     values |-> <<x.data.id>>, query |-> <<"id">>, sep |-> ""]

\* sqlite3: no table yet; a table is its rows (functions of the column names) and
\* the AUTOINCREMENT counter of sqlite_sequence
NoTable == [exists |-> FALSE, rows |-> {}, seq |-> 0]

NoException == [type |-> NONE, msg |-> ""]
OperationalError(msg) == [type |-> "sqlite3.OperationalError", msg |-> msg]

\* column = ? in a WHERE clause: NULL equals nothing
SqlEquals(row, key, value) ==
    IF key = "id" \/ EndsWithId(key) THEN value # NoId /\ row[key] = value
    ELSE row[key] = value

\* the rows of a table in rowid order
RECURSIVE InRowidOrder(_)
InRowidOrder(rows) ==
    IF rows = {} THEN <<>>
    ELSE LET r == CHOOSE r \in rows : \A q \in rows : r.id <= q.id
         IN <<r>> \o InRowidOrder(rows \ {r})

\* sqlite3.Connection.execute(sql, values) on the statements the mapper builds:
\* the database after it, the rows fetched, lastrowid, or the exception raised
execute(d, sql) ==
    LET t == d[sql.name]
        unchanged == [db |-> d, rows |-> <<>>, lastrowid |-> NoId, raised |-> NoException]
    IN
    IF sql.stmt = "CREATE TABLE IF NOT EXISTS"
    THEN [unchanged EXCEPT !.db = IF t.exists THEN d
                                  ELSE [d EXCEPT ![sql.name] = [NoTable EXCEPT !.exists = TRUE]]]
    ELSE IF ~t.exists
    THEN [unchanged EXCEPT !.raised = OperationalError("no such table: " \o sql.name)]
    ELSE IF sql.stmt = "INSERT"
    THEN LET id == t.seq + 1
             row == [f \in {"id"} \cup {sql.fields[i] : i \in 1..Len(sql.fields)} |->
                       IF f = "id" THEN id
                       ELSE sql.values[CHOOSE i \in 1..Len(sql.fields) : sql.fields[i] = f]]
         IN [unchanged EXCEPT
               !.db = [d EXCEPT ![sql.name] = [t EXCEPT !.rows = @ \cup {row}, !.seq = id]],
               !.lastrowid = id]
    ELSE IF sql.stmt = "SELECT"
    THEN [unchanged EXCEPT !.rows = InRowidOrder(t.rows)]
    ELSE IF sql.stmt = "SELECT WHERE"
    THEN IF Len(sql.query) = 0 \/ (Len(sql.query) > 1 /\ sql.sep # " AND ")
         THEN [unchanged EXCEPT !.raised =
                 OperationalError(IF Len(sql.query) = 0 THEN "near \";\": syntax error"
                                  ELSE "near \",\": syntax error")]
         ELSE [unchanged EXCEPT !.rows =
                 InRowidOrder({r \in t.rows :
                                 \A i \in 1..Len(sql.query) :
                                    SqlEquals(r, sql.query[i], sql.values[i])})]
    ELSE IF sql.stmt = "UPDATE"
    THEN LET id == sql.values[Len(sql.values)]
             new(r) == [f \in DOMAIN r |->
                          IF f = "id" THEN r.id
                          ELSE sql.values[CHOOSE i \in 1..Len(sql.fields) : sql.fields[i] = f]]
         IN [unchanged EXCEPT
               !.db = [d EXCEPT ![sql.name] =
                         [t EXCEPT !.rows = {IF SqlEquals(r, "id", id) THEN new(r) ELSE r :
                                               r \in t.rows}]]]
    ELSE \* DELETE
         [unchanged EXCEPT
            !.db = [d EXCEPT ![sql.name] =
                      [t EXCEPT !.rows = {r \in t.rows : ~SqlEquals(r, "id", sql.values[1])}]]]

\* repr of a keyword-argument dict, as the f-string of Database.get prints it
IntText(n) ==
    CASE n = 1 -> "1" [] n = 2 -> "2" [] n = 3 -> "3" [] n = 4 -> "4" [] n = 5 -> "5"
      [] OTHER -> "0"

ReprValue(key, v) ==
    IF key = "id" \/ EndsWithId(key) THEN (IF v = NoId THEN "None" ELSE IntText(v))
    ELSE "'" \o v \o "'"

RECURSIVE ReprItems(_)
ReprItems(kwargs) ==
    IF kwargs = <<>> THEN ""
    ELSE "'" \o kwargs[1][1] \o "': " \o ReprValue(kwargs[1][1], kwargs[1][2])
         \o (IF Len(kwargs) = 1 THEN "" ELSE ", " \o ReprItems(Tail(kwargs)))

ReprKwargs(kwargs) == "{" \o ReprItems(kwargs) \o "}"

DoesNotExist(cls, kwargs) ==
    [type |-> "Exception",
     msg |-> cls \o " instance with " \o ReprKwargs(kwargs) \o " does not exist"]

NoInstance == [cls |-> NONE, data |-> [id |-> NoId]]

\* getattr(table, foreign_key).table
ForeignTable(cls, key) ==
    Members(cls)[CHOOSE i \in 1..Len(Members(cls)) : Members(cls)[i][1] = key][2].table

\* Database.get(table, **kwargs) and the loop of get and all that makes an instance
\* of a row: a column named <key>_id becomes properties[<key>], the instance that
\* get(foreign_table, id=value) returns (its exception leaves the caller too)
RECURSIVE get(_, _, _), FromRow(_, _, _, _)

\* a slip in that loop: the reference is looked up by the id of the row itself
FromRowOwnId(d, cls, fields, row) ==
    LET refs == {i \in 1..Len(fields) : EndsWithId(fields[i])}
        sub(i) == get(d, ForeignTable(cls, StripId(fields[i])), << <<"id", row.id>> >>)
        failing == {i \in refs : sub(i).raised # NoException}
    IN IF failing # {}
       THEN [raised |-> sub(CHOOSE i \in failing : \A j \in failing : i <= j).raised,
             value |-> NoInstance]
       ELSE [raised |-> NoException,
             value |-> Table(cls, [k \in {StripId(fields[i]) : i \in 1..Len(fields)} |->
                                     LET i == CHOOSE i \in 1..Len(fields) : StripId(fields[i]) = k
                                     IN IF i \in refs THEN sub(i).value ELSE row[fields[i]]])]

FromRow(d, cls, fields, row) ==
    LET refs == {i \in 1..Len(fields) : EndsWithId(fields[i])}
        sub(i) == get(d, ForeignTable(cls, StripId(fields[i])), << <<"id", row[fields[i]]>> >>)
        failing == {i \in refs : sub(i).raised # NoException}
    IN IF failing # {}
       THEN [raised |-> sub(CHOOSE i \in failing : \A j \in failing : i <= j).raised,
             value |-> NoInstance]
       ELSE [raised |-> NoException,
             value |-> Table(cls, [k \in {StripId(fields[i]) : i \in 1..Len(fields)} |->
                                     LET i == CHOOSE i \in 1..Len(fields) : StripId(fields[i]) = k
                                     IN IF i \in refs THEN sub(i).value ELSE row[fields[i]]])]

get(d, cls, kwargs) ==
    LET sql == _get_select_where_sql(cls, kwargs)
        cur == execute(d, sql)
    IN IF cur.raised # NoException THEN [raised |-> cur.raised, value |-> NoInstance]
       ELSE IF cur.rows = <<>>
       THEN [raised |-> DoesNotExist(cls, kwargs), value |-> NoInstance]
       ELSE FromRow(d, cls, sql.fields, cur.rows[1])

\* Database.all(table): an instance per row, in the order fetched
all(d, cls) ==
    LET sql == _get_select_all_sql(cls)
        cur == execute(d, sql)
        made == [i \in 1..Len(cur.rows) |-> FromRow(d, cls, sql.fields, cur.rows[i])]
        failing == {i \in 1..Len(made) : made[i].raised # NoException}
    IN IF cur.raised # NoException THEN [raised |-> cur.raised, values |-> <<>>]
       ELSE IF failing # {}
       THEN [raised |-> made[CHOOSE i \in failing : \A j \in failing : i <= j].raised,
             values |-> <<>>]
       ELSE [raised |-> NoException, values |-> [i \in 1..Len(made) |-> made[i].value]]

\* the instances the program constructs: two authors and a book of the first
AuthorObjs == {"x", "y"}
BookObjs == {"b"}
Objs == AuthorObjs \cup BookObjs

Names == {"A", "B"}

\* the outcome of the most recent call of a Database method: what it was called
\* with, the exception that left it, the instance or the list it returned
NoResult ==
    [op |-> NONE, arg |-> NONE, kwargs |-> <<>>, raised |-> NoException,
     value |-> NoInstance, values |-> <<>>]

Outcome(op, arg, e) == [NoResult EXCEPT !.op = op, !.arg = arg, !.raised = e]

\* Database(path) on a new file, and the instances as constructed
InitORM ==
    /\ db = [t \in {TableName(cls) : cls \in TableClasses} |-> NoTable]
    /\ inst = [o \in Objs |->
                 IF o = "x" THEN Table("Author", [name |-> "A"])
                 ELSE IF o = "y" THEN Table("Author", [name |-> "B"])
                 ELSE Table("Book", [title |-> "T", author |-> "x"])]
    /\ result = NoResult

-----------------------------------------------------------------------------
(* methods.py: the functions on verbs. An argument is a Python value: a str,  *)
(* or a member of the HTTPMethods enumeration (its name and value are equal). *)

Str(s) == [kind |-> "str", v |-> s]
Member(n) == [kind |-> "HTTPMethods", v |-> n]

\* HTTPMethods.__members__.values(): the seven members
HTTPMethodsMembers == {Member(n) : n \in HTTPMethods}

\* is_valid_method: `method in HTTPMethods.__members__.values()`; a member of a
\* plain Enum is equal to itself only, never to the str that is its value
is_valid_method(m) == m \in HTTPMethodsMembers

ValueError(text) == [type |-> "ValueError", msg |-> text]
AttributeError(text) == [type |-> "AttributeError", msg |-> text]

\* f"{method}"
Format(m) == IF m.kind = "str" THEN m.v ELSE "HTTPMethods." \o m.v

\* get_handler_name_for_method: the name, or the exception raised
get_handler_name_for_method(m) ==
    IF ~ is_valid_method(m)
    THEN [name |-> NONE, raised |-> ValueError("Invalid HTTP method: " \o Format(m))]
    ELSE IF m.kind = "str"
    THEN [name |-> Lower(m.v), raised |-> NoError]
    ELSE [name |-> NONE,
          raised |-> AttributeError("'HTTPMethods' object has no attribute 'lower'")]

\* the two functions of methods.py and what the program calls them with: the
\* names of the verbs in upper and in lower case, a verb outside the set, the
\* empty string, and the members of the enumeration
MethodsFns == {"is_valid_method", "get_handler_name_for_method"}
MethodArgs ==
    {Str(s) : s \in HTTPMethods \cup {Lower(v) : v \in HTTPMethods} \cup {"TRACE", ""}}
      \cup HTTPMethodsMembers

\* the most recent call of a function of methods.py: its argument, the bool or
\* the name it returned, the exception that left it
NoOutcome ==
    [called |-> FALSE, arg |-> Str(""), truth |-> FALSE, name |-> NONE, raised |-> NoError]

\* is_valid_method(m) called by the program
IsValidMethod(m) ==
    /\ outcome' = [outcome EXCEPT !["is_valid_method"] =
                      [NoOutcome EXCEPT !.called = TRUE, !.arg = m,
                                        !.truth = is_valid_method(m)]]
    /\ UNCHANGED <<config, percall, raised, returned, orm>>

\* get_handler_name_for_method(m) called by the program
GetHandlerNameForMethod(m) ==
    /\ outcome' = [outcome EXCEPT !["get_handler_name_for_method"] =
                      [NoOutcome EXCEPT !.called = TRUE, !.arg = m,
                                        !.name = get_handler_name_for_method(m).name,
                                        !.raised = get_handler_name_for_method(m).raised]]
    /\ UNCHANGED <<config, percall, raised, returned, orm>>

-----------------------------------------------------------------------------
(* Initial state: a newly constructed Plinx() and no call in progress *)

Init ==
    /\ routes = <<>>
    /\ exception_handler = NONE
    /\ middleware = <<>>
    /\ raised = NoError
    /\ returned = NONE
    /\ pc = [c \in AllCalls |-> "idle"]
    /\ request = [c \in AllCalls |-> NoRequest]
    /\ stack = [c \in AllCalls |-> <<>>]
    /\ idx = [c \in AllCalls |-> 0]
    /\ response = [c \in AllCalls |-> Response]
    /\ found = [c \in AllCalls |-> NotFound]
    /\ exc = [c \in AllCalls |-> NONE]
    /\ trace = [c \in AllCalls |-> <<>>]
    /\ sent = [c \in AllCalls |-> NotSent]
    /\ hookret = [c \in AllCalls |-> NoReplacement]
    /\ resource = [c \in AllCalls |-> NoResource]
    /\ outcome = [f \in MethodsFns |-> NoOutcome]
    /\ InitORM

Quiet == \A c \in AllCalls : pc[c] = "idle"

-----------------------------------------------------------------------------
(* Registration *)

\* a slip in add_route: no check, the assignment overwrites the entry of the path
add_route_overwrite(p, h, m) ==
    /\ Quiet
    /\ IF p \in RoutePaths(routes)
       THEN routes' = [i \in 1..Len(routes) |->
                         IF routes[i].path = p THEN Entry(p, m, h) ELSE routes[i]]
       ELSE /\ Len(routes) < MaxRoutes
            /\ routes' = Append(routes, Entry(p, m, h))
    /\ raised' = NoError
    /\ UNCHANGED <<exception_handler, middleware, percall, orm, outcome>>

\* a slip in add_route: the table is keyed on the pattern and the verb together
add_route_per_verb(p, h, m) ==
    /\ Quiet
    /\ IF \E i \in 1..Len(routes) : routes[i].path = p /\ routes[i].method = m
       THEN /\ raised' = DuplicateRoute(p)
            /\ routes' = routes
       ELSE /\ Len(routes) < MaxRoutes
            /\ raised' = NoError
            /\ routes' = Append(routes, Entry(p, m, h))
    /\ UNCHANGED <<exception_handler, middleware, percall, orm, outcome>>

\* Plinx.add_route(path, handler, method): the check and the assignment; what the
\* caller gets back (None, or the handler from a decorator's wrapper) is the caller's
add_route(p, h, m) ==
    /\ Quiet
    /\ IF p \in RoutePaths(routes)
       THEN /\ raised' = DuplicateRoute(p)
            /\ routes' = routes
       ELSE /\ Len(routes) < MaxRoutes
            /\ raised' = NoError
            /\ routes' = Append(routes, Entry(p, m, h))
    /\ UNCHANGED <<exception_handler, middleware, percall, orm, outcome>>

\* Plinx.route(path)(handler): the wrapper calls add_route(path, handler), method
\* defaulted to GET, and returns the handler unless add_route raised
route(p, h) ==
    /\ add_route(p, h, "GET")
    /\ returned' = IF raised' = NoError THEN h ELSE NONE

\* a slip in the decorator factory: the closure reads the loop variable of
\* Plinx.__init__ when it is called, which holds the last member by then
create_method_decorator_late(method) == "PATCH"

\* Plinx._create_method_decorator(method): the decorator made binds `method`; a
\* decorator is known by the verb it binds
_create_method_decorator(method) == method

\* HTTPMethods.<X>.name.lower(): the name and the value of a member are the same text
MethodNames == {Lower(m) : m \in HTTPMethods}

\* Plinx.__init__: self._method_decorators[method.name.lower()] for each member
_method_decorators ==
    [name \in MethodNames |->
       _create_method_decorator(CHOOSE m \in HTTPMethods : Lower(m) = name)]

NoAttribute(name) ==
    [type |-> "RuntimeError",
     msg |-> "'Plinx' object has no attribute '" \o name \o "'"]

\* a slip in __getattr__: an unknown name gets an inert decorator, nothing is raised
getattr_inert(name) ==
    IF name \in DOMAIN _method_decorators
    THEN [raised |-> NoError, decorator |-> _method_decorators[name]]
    ELSE [raised |-> NoError, decorator |-> NONE]

\* Plinx.__getattr__(name), reached for names that are not real attributes
__getattr__(name) ==
    IF name \in DOMAIN _method_decorators
    THEN [raised |-> NoError, decorator |-> _method_decorators[name]]
    ELSE [raised |-> NoAttribute(name), decorator |-> NONE]

\* the statement app.<name>(path)(handler): the attribute access, then the decorator
\* applied to the path and its wrapper to the handler (add_route with the verb bound,
\* return handler); an inert decorator registers nothing and returns nothing
decorate(name, p, h) ==
    LET a == __getattr__(name) IN
    IF a.raised = NoError /\ a.decorator # NONE
    THEN /\ add_route(p, h, a.decorator)
         /\ returned' = IF raised' = NoError THEN h ELSE NONE
    ELSE /\ Quiet
         /\ raised' = a.raised
         /\ returned' = NONE
         /\ UNCHANGED <<config, percall, orm, outcome>>

\* Plinx.add_exception_handler
add_exception_handler(eh) ==
    /\ Quiet
    /\ exception_handler' = eh
    /\ raised' = NoError
    /\ returned' = NONE
    /\ UNCHANGED <<routes, middleware, percall, orm, outcome>>

\* a new instance of a middleware class; n tells the instances apart: the n-th
\* layer added to the application
Layer(cls, n) == [cls |-> cls, n |-> n]

\* a slip in Middleware.add: the new layer is put under the chain, not around it
add_innermost(chain, cls) == chain \o <<Layer(cls, Len(chain) + 1)>>

\* Middleware.add: self.app = middleware_cls(self.app), the new layer wraps the
\* chain there was and becomes its head
add(chain, cls) == <<Layer(cls, Len(chain) + 1)>> \o chain

\* Plinx.add_middleware
add_middleware(cls) ==
    /\ Quiet
    /\ Len(middleware) < MaxLayers
    /\ middleware' = add(middleware, cls)
    /\ raised' = NoError
    /\ returned' = NONE
    /\ UNCHANGED <<routes, exception_handler, percall, orm, outcome>>

-----------------------------------------------------------------------------
(* Dispatch of one call *)

\* a slip in Middleware.handle_request: the response of the inner call goes
\* back without the layer's process_response
AfterCoreDirect(c) == "finalize"

\* where a call goes once Plinx.handle_request has returned its response
AfterCore(c) == IF Len(stack[c]) = 0 THEN "finalize" ELSE "process_response"

\* a slip in the entry point: the request is kept on the application, where
\* every call under way reads it
CallShared(c, m, p) ==
    /\ pc[c] = "idle"
    /\ request' = [d \in AllCalls |-> [method |-> m, path |-> p]]
    /\ stack' = [stack EXCEPT ![c] = middleware]
    /\ idx' = [idx EXCEPT ![c] = 1]
    /\ pc' = [pc EXCEPT ![c] = IF Len(middleware) = 0 THEN "handle_request"
                                ELSE "process_request"]
    /\ raised' = NoError
    /\ returned' = NONE
    /\ UNCHANGED <<orm, outcome, config, resource, response, found, exc, trace, sent, hookret>>

\* Plinx.__call__ -> Middleware.__call__: the request enters the outermost layer
Call(c, m, p) ==
    /\ pc[c] = "idle"
    /\ request' = [request EXCEPT ![c] = [method |-> m, path |-> p]]
    /\ stack' = [stack EXCEPT ![c] = middleware]
    /\ idx' = [idx EXCEPT ![c] = 1]
    /\ pc' = [pc EXCEPT ![c] = IF Len(middleware) = 0 THEN "handle_request"
                                ELSE "process_request"]
    /\ raised' = NoError
    /\ returned' = NONE
    /\ UNCHANGED <<orm, outcome, config, resource, response, found, exc, trace, sent, hookret>>

\* Middleware.handle_request, first line: the layer's process_request hook runs
\* and returns, or raises
ProcessRequest(c) ==
    /\ pc[c] = "process_request"
    /\ trace' = [trace EXCEPT ![c] = Append(@, Ev("process_request", stack[c][idx[c]].n))]
    /\ \/ \* self.app.handle_request(request): the next layer in, or the application
          /\ idx' = [idx EXCEPT ![c] = @ + 1]
          /\ pc' = [pc EXCEPT ![c] = IF idx[c] = Len(stack[c]) THEN "handle_request" ELSE @]
          /\ exc' = exc
       \/ /\ pc' = [pc EXCEPT ![c] = "raised"]
          /\ exc' = [exc EXCEPT ![c] = "hook"]
          /\ idx' = idx
    /\ UNCHANGED <<orm, outcome, config, resource, raised, returned, hookret, request, stack, response, found, sent>>

\* a slip in handle_request: one response object, kept on the application, is
\* reset for each request and written by every call under way
FindHandlerSharedResponse(c) ==
    /\ pc[c] = "handle_request"
    /\ LET r == find_handler(routes, request[c].path) IN
       /\ found' = [found EXCEPT ![c] = r]
       /\ response' = [d \in AllCalls |-> IF r.hit THEN Response
                                           ELSE handle_404(Response)]
       /\ pc' = [pc EXCEPT ![c] = IF r.hit THEN "resolve" ELSE AfterCore(c)]
    /\ idx' = [idx EXCEPT ![c] = Len(stack[c])]
    /\ trace' = [trace EXCEPT ![c] = Append(@, Ev("handle_request", 0))]
    /\ UNCHANGED <<orm, outcome, config, resource, raised, returned, hookret, request, stack, exc, sent>>

\* a slip in find_handler: a route registered under another verb is passed over
\* when a later route matches the path under the request's verb
FindHandlerByVerb(c) ==
    /\ pc[c] = "handle_request"
    /\ LET S == {i \in 1..Len(routes) :
                  /\ parse(routes[i].path, request[c].path).ok
                  /\ routes[i].method = request[c].method}
           r == IF S = {} THEN find_handler(routes, request[c].path)
                ELSE LET i == CHOOSE i \in S : \A j \in S : i <= j
                     IN [hit |-> TRUE, entry |-> routes[i],
                         named |-> parse(routes[i].path, request[c].path).named]
       IN
       /\ found' = [found EXCEPT ![c] = r]
       /\ response' = [response EXCEPT ![c] = IF r.hit THEN Response
                                               ELSE handle_404(Response)]
       /\ pc' = [pc EXCEPT ![c] = IF r.hit THEN "resolve" ELSE AfterCore(c)]
    /\ idx' = [idx EXCEPT ![c] = Len(stack[c])]
    /\ trace' = [trace EXCEPT ![c] = Append(@, Ev("handle_request", 0))]
    /\ UNCHANGED <<orm, outcome, config, resource, raised, returned, hookret, request, stack, exc, sent>>

\* Plinx.handle_request up to the try block: a new Response and find_handler
FindHandler(c) ==
    /\ pc[c] = "handle_request"
    /\ LET r == find_handler(routes, request[c].path) IN
       /\ found' = [found EXCEPT ![c] = r]
       /\ response' = [response EXCEPT ![c] = IF r.hit THEN Response
                                               ELSE handle_404(Response)]
       /\ pc' = [pc EXCEPT ![c] = IF r.hit THEN "resolve" ELSE AfterCore(c)]
    /\ idx' = [idx EXCEPT ![c] = Len(stack[c])]
    /\ trace' = [trace EXCEPT ![c] = Append(@, Ev("handle_request", 0))]
    /\ UNCHANGED <<orm, outcome, config, resource, raised, returned, hookret, request, stack, exc, sent>>

\* a slip in handle_request: the mismatch is reported as a failure
MethodNotAllowedAsFailure(r) ==
    [r EXCEPT !.status_code = INTERNAL_SERVER_ERROR, !.text = "Method Not Allowed"]

\* the two assignments of a verb mismatch
MethodNotAllowed(r) ==
    [r EXCEPT !.status_code = METHOD_NOT_ALLOWED, !.text = "Method Not Allowed"]

\* a slip in the verb test: the comparison inverted
MethodMismatchInverted(verb, method) == verb = method

\* request.method != method.value
MethodMismatch(verb, method) == verb # method

\* Plinx.handle_request, the try block: resolve the callable and call it
Invoke(c) ==
    /\ pc[c] = "resolve"
    /\ LET method == found[c].entry.method
           handler == found[c].entry.handler
           verb == request[c].method
       IN
       IF isclass(handler)
       THEN \/ \* handler() raises
               /\ trace' = [trace EXCEPT ![c] = @ \o <<Ev("construct", 0), Ev("raise", 0)>>]
               /\ exc' = [exc EXCEPT ![c] = "init"]
               /\ pc' = [pc EXCEPT ![c] = "except"]
               /\ response' = response
               /\ resource' = resource
            \/ \* handler() returns an instance without the attribute
               /\ Lower(verb) \notin Attrs(handler)
               /\ trace' = [trace EXCEPT ![c] = Append(@, Ev("construct", 0))]
               /\ response' = [response EXCEPT ![c] = MethodNotAllowed(@)]
               /\ resource' = [resource EXCEPT ![c] = New(handler)]
               /\ pc' = [pc EXCEPT ![c] = AfterCore(c)]
               /\ exc' = exc
            \/ \* the bound method is called
               /\ Lower(verb) \in Attrs(handler)
               /\ \E e \in Effects :
                    /\ trace' = [trace EXCEPT ![c] =
                                   @ \o <<Ev("construct", 0), Ev("handler", 0)>>
                                     \o Raise(e)]
                    /\ resource' = [resource EXCEPT ![c] = Touch(New(handler))]
                    /\ response' = [response EXCEPT ![c] = Apply(@, e)]
                    /\ exc' = [exc EXCEPT ![c] = e.raises]
                    /\ pc' = [pc EXCEPT ![c] = IF e.raises = NONE THEN AfterCore(c)
                                                ELSE "except"]
       ELSE IF isfunction(handler) /\ MethodMismatch(verb, method)
       THEN /\ response' = [response EXCEPT ![c] = MethodNotAllowed(@)]
            /\ pc' = [pc EXCEPT ![c] = AfterCore(c)]
            /\ UNCHANGED <<trace, exc, resource>>
       ELSE \E e \in Effects :
               /\ trace' = [trace EXCEPT ![c] = @ \o <<Ev("handler", 0)>> \o Raise(e)]
               /\ resource' = resource
               /\ response' = [response EXCEPT ![c] = Apply(@, e)]
               /\ exc' = [exc EXCEPT ![c] = e.raises]
               /\ pc' = [pc EXCEPT ![c] = IF e.raises = NONE THEN AfterCore(c)
                                           ELSE "except"]
    /\ UNCHANGED <<orm, outcome, config, raised, returned, hookret, request, stack, idx, found, sent>>

\* Plinx.handle_request, the except clause
HandleException(c) ==
    /\ pc[c] = "except"
    /\ IF exception_handler # NONE
       THEN \E e \in Effects :
               /\ trace' = [trace EXCEPT ![c] = @ \o <<Ev("exception_handler", 0)>> \o Raise(e)]
               /\ response' = [response EXCEPT ![c] = Apply(@, e)]
               /\ exc' = [exc EXCEPT ![c] = e.raises]
               /\ pc' = [pc EXCEPT ![c] = IF e.raises = NONE THEN AfterCore(c)
                                           ELSE "raised"]
       ELSE /\ response' = [response EXCEPT ![c] =
                              [@ EXCEPT !.status_code = INTERNAL_SERVER_ERROR,
                                        !.text = exc[c]]]
            /\ exc' = [exc EXCEPT ![c] = NONE]
            /\ pc' = [pc EXCEPT ![c] = AfterCore(c)]
            /\ trace' = trace
    /\ UNCHANGED <<orm, outcome, config, resource, raised, returned, hookret, request, stack, idx, found, sent>>

\* Middleware.handle_request, after the inner call: the layer's process_response
\* hook runs and returns, or raises; the response goes on to the next layer out
ProcessResponse(c) ==
    /\ pc[c] = "process_response"
    /\ trace' = [trace EXCEPT ![c] = Append(@, Ev("process_response", stack[c][idx[c]].n))]
    /\ \/ \* return response: to the layer that called this one, or to __call__
          /\ idx' = [idx EXCEPT ![c] = @ - 1]
          /\ pc' = [pc EXCEPT ![c] = IF idx[c] = 1 THEN "finalize" ELSE @]
          /\ exc' = exc
       \/ /\ pc' = [pc EXCEPT ![c] = "raised"]
          /\ exc' = [exc EXCEPT ![c] = "hook"]
          /\ idx' = idx
    /\ UNCHANGED <<orm, outcome, config, resource, raised, returned, hookret, request, stack, response, found, sent>>

\* the new response object a layer's process_response hook builds and returns
Replacement(n) == [Response EXCEPT !.status_code = 210 + n, !.text = "replaced"]

\* Middleware.handle_request, after the inner call, under a process_response hook
\* that returns a new response object: the statement that calls the hook does not
\* bind its value, and `return response` returns the inner call's response
ProcessResponseReturning(c) ==
    /\ pc[c] = "process_response"
    /\ trace' = [trace EXCEPT ![c] = Append(@, Ev("process_response", stack[c][idx[c]].n))]
    /\ hookret' = [hookret EXCEPT ![c] = Replacement(stack[c][idx[c]].n)]
    /\ idx' = [idx EXCEPT ![c] = @ - 1]
    /\ pc' = [pc EXCEPT ![c] = IF idx[c] = 1 THEN "finalize" ELSE @]
    /\ UNCHANGED <<orm, outcome, config, resource, raised, returned, request, stack, response, found, exc, sent>>

\* Middleware.__call__, last line: response(environ, start_response)
Finalize(c) ==
    /\ pc[c] = "finalize"
    /\ LET r == set_body_and_content_type(response[c]) IN
       /\ response' = [response EXCEPT ![c] = r]
       /\ sent' = [sent EXCEPT ![c] = Transport(r)]
    /\ pc' = [pc EXCEPT ![c] = "done"]
    /\ UNCHANGED <<orm, outcome, config, resource, raised, returned, hookret, request, stack, idx, found, exc, trace>>

\* the call is over (it returned to the transport or raised into it)
Return(c) ==
    /\ pc[c] \in {"done", "raised"}
    /\ pc' = [pc EXCEPT ![c] = "idle"]
    /\ request' = [request EXCEPT ![c] = NoRequest]
    /\ stack' = [stack EXCEPT ![c] = <<>>]
    /\ idx' = [idx EXCEPT ![c] = 0]
    /\ response' = [response EXCEPT ![c] = Response]
    /\ found' = [found EXCEPT ![c] = NotFound]
    /\ exc' = [exc EXCEPT ![c] = NONE]
    /\ trace' = [trace EXCEPT ![c] = <<>>]
    /\ sent' = [sent EXCEPT ![c] = NotSent]
    /\ hookret' = [hookret EXCEPT ![c] = NoReplacement]
    /\ resource' = [resource EXCEPT ![c] = NoResource]
    /\ raised' = NoError
    /\ returned' = NONE
    /\ UNCHANGED <<orm, outcome, config>>

-----------------------------------------------------------------------------

Register ==
    \/ \E p \in Patterns, h \in Handlers, m \in RouteMethods :
          add_route(p, h, m) /\ returned' = NONE
    \/ add_exception_handler("on_exception")
    \/ \E cls \in MiddlewareClasses : add_middleware(cls)

Dispatch(c) ==
    \/ \E m \in RequestMethods, p \in Paths : Call(c, m, p)
    \/ ProcessRequest(c)
    \/ FindHandler(c)
    \/ Invoke(c)
    \/ HandleException(c)
    \/ ProcessResponse(c)
    \/ Finalize(c)
    \/ Return(c)

Next == Register \/ \E c \in SeqCalls : Dispatch(c)

Spec == Init /\ [][Next]_vars

-----------------------------------------------------------------------------
(* The registration API with all seven verbs: add_route, route and the        *)
(* per-verb decorators reached through __getattr__, and requests under any    *)
(* verb, on an application without middleware.                                *)

VerbPatterns == { <<Lit("/"), Lit("a")>>, <<Lit("/"), Field("n", "")>> }
VerbPaths == { <<"/", "a">> }

\* attribute names looked up on the application: the decorators' names and two
\* names that are neither attributes nor decorators
AttrNames == MethodNames \cup {"trace", "GET"}

RegisterVerbs ==
    \/ \E p \in VerbPatterns, h \in Handlers, m \in HTTPMethods :
          add_route(p, h, m) /\ returned' = NONE
    \/ \E p \in VerbPatterns, h \in Handlers : route(p, h)
    \/ \E name \in AttrNames, p \in VerbPatterns, h \in Handlers : decorate(name, p, h)

DispatchVerbs(c) ==
    \/ \E m \in HTTPMethods, p \in VerbPaths : Call(c, m, p)
    \/ FindHandler(c)
    \/ Invoke(c)
    \/ HandleException(c)
    \/ Finalize(c)
    \/ Return(c)

NextVerbs == RegisterVerbs \/ \E c \in SeqCalls : DispatchVerbs(c)

SpecVerbs == Init /\ [][NextVerbs]_vars

-----------------------------------------------------------------------------
(* The middleware chain under hooks that return response objects: one route,  *)
(* layers whose process_response returns None, returns a new response, or     *)
(* raises.                                                                    *)

RegisterChain ==
    \/ add_route(<<Lit("/"), Lit("a")>>, "f", "GET") /\ returned' = NONE
    \/ \E cls \in MiddlewareClasses : add_middleware(cls)

DispatchChain(c) ==
    \/ \E p \in {<<"/", "a">>, <<"/", "1", "2">>} : Call(c, "GET", p)
    \/ ProcessRequest(c)
    \/ FindHandler(c)
    \/ Invoke(c)
    \/ HandleException(c)
    \/ ProcessResponse(c)
    \/ ProcessResponseReturning(c)
    \/ Finalize(c)
    \/ Return(c)

NextChain == RegisterChain \/ \E c \in SeqCalls : DispatchChain(c)

SpecChain == Init /\ [][NextChain]_vars

-----------------------------------------------------------------------------
(* Finalization alone: a call about to hand its response to the transport,    *)
(* the response holding any combination of the attributes a handler can set.  *)

ResponseInputs ==
    [json : {NONE} \cup JsonValues,
     text : {NONE, "hello", ""},
     content_type : {NONE, "text/html"},
     body : {Bytes(""), Bytes("raw")},
     status_code : {OK, NOT_FOUND},
     headers : {{}, {<<"X-Custom-Header", "Value">>}, {<<"Content-Type", "text/html">>}}]

InitResponse ==
    /\ routes = <<>>
    /\ exception_handler = NONE
    /\ middleware = <<>>
    /\ raised = NoError
    /\ returned = NONE
    /\ pc = [c \in AllCalls |-> IF c \in SeqCalls THEN "finalize" ELSE "idle"]
    /\ request = [c \in AllCalls |-> NoRequest]
    /\ stack = [c \in AllCalls |-> <<>>]
    /\ idx = [c \in AllCalls |-> 0]
    /\ response \in [AllCalls -> ResponseInputs \cup {Response}]
    /\ \A c \in AllCalls \ SeqCalls : response[c] = Response
    /\ found = [c \in AllCalls |-> NotFound]
    /\ exc = [c \in AllCalls |-> NONE]
    /\ trace = [c \in AllCalls |-> <<>>]
    /\ sent = [c \in AllCalls |-> NotSent]
    /\ hookret = [c \in AllCalls |-> NoReplacement]
    /\ resource = [c \in AllCalls |-> NoResource]
    /\ outcome = [f \in MethodsFns |-> NoOutcome]
    /\ InitORM

NextResponse == \E c \in SeqCalls : Finalize(c) \/ Return(c)

SpecResponse == InitResponse /\ [][NextResponse]_vars

-----------------------------------------------------------------------------
(* Handler resolution alone: function handlers and resources registered under  *)
(* GET or POST, an exception handler or none, no middleware, and requests      *)
(* under GET, POST and a verb outside HTTPMethods.                             *)

\* the program calling the functions of methods.py
NextMethods ==
    \/ \E m \in MethodArgs : IsValidMethod(m)
    \/ \E m \in MethodArgs : GetHandlerNameForMethod(m)

SpecMethods == Init /\ [][NextMethods]_vars

ResolveHandlers == FunctionHandlers \cup Resources
ResolveVerbs == {"GET", "POST", "TRACE"}
ResolvePaths == { <<"/", "a">>, <<"/", "b", "/", "x">> }

RegisterResolve ==
    \/ \E p \in VerbPatterns, h \in ResolveHandlers, m \in RouteMethods :
          add_route(p, h, m) /\ returned' = NONE
    \/ add_exception_handler("on_exception")

DispatchResolve(c) ==
    \/ \E m \in ResolveVerbs, p \in ResolvePaths : Call(c, m, p)
    \/ FindHandler(c)
    \/ Invoke(c)
    \/ HandleException(c)
    \/ Finalize(c)
    \/ Return(c)

NextResolve == RegisterResolve \/ \E c \in SeqCalls : DispatchResolve(c)

SpecResolve == Init /\ [][NextResolve]_vars

-----------------------------------------------------------------------------
(* Concurrent requests: the transport calls the application from two threads  *)
(* at once, each call a request of its own; registration happens while no     *)
(* call is under way.                                                         *)

CallsPattern == <<Lit("/"), Lit("a")>>
CallsPaths == { <<"/", "a">>, <<"/", "b", "/", "x">> }

RegisterCalls ==
    \/ \E h \in Handlers : add_route(CallsPattern, h, "GET") /\ returned' = NONE
    \/ add_exception_handler("on_exception")
    \/ \E cls \in MiddlewareClasses : add_middleware(cls)

DispatchCalls(c) ==
    \/ \E m \in RequestMethods, p \in CallsPaths : Call(c, m, p)
    \/ ProcessRequest(c)
    \/ FindHandler(c)
    \/ Invoke(c)
    \/ HandleException(c)
    \/ ProcessResponse(c)
    \/ Finalize(c)
    \/ Return(c)

NextCalls == RegisterCalls \/ \E c \in AllCalls : DispatchCalls(c)

SpecCalls == Init /\ [][NextCalls]_vars

-----------------------------------------------------------------------------
(* Helpers of the properties *)

IsPrefix(a, b) == Len(a) <= Len(b) /\ SubSeq(b, 1, Len(a)) = a

Count(t, name) == Cardinality({i \in 1..Len(t) : t[i].ev = name})

\* a call that went through Plinx.handle_request and got its response back
Dispatched(c) == pc[c] \in {"process_response", "finalize", "done"}

\* the call came back to the transport with a response
Returned(c) == pc[c] \in {"finalize", "done"}

\* the hooks and the application call of a trace, in order
ChainCalls(t) ==
    SelectSeq(t, LAMBDA e : e.ev \in {"process_request", "handle_request", "process_response"})

\* the order claimed for layers added as 1, 2, .., n: n .. 1 on the way in, the
\* application, 1 .. n on the way out
Onion(n) ==
    [i \in 1..n |-> Ev("process_request", n + 1 - i)]
    \o <<Ev("handle_request", 0)>>
    \o [i \in 1..n |-> Ev("process_response", i)]

\* the call has been through find_handler
PastFind(c) == Count(trace[c], "handle_request") = 1

\* what happened inside Plinx.handle_request's try block and except clause
CoreEvents(t) ==
    SelectSeq(t, LAMBDA e : e.ev \in {"construct", "handler", "raise", "exception_handler"})

\* the resolved handler (function or resource method) was called and raised
HandlerRaised(t) ==
    LET core == CoreEvents(t) IN
    \E k \in 1..(Len(core) - 1) : core[k].ev = "handler" /\ core[k + 1].ev = "raise"

\* the routes whose pattern matches a path, by place in the table
Matching(path) == {i \in 1..Len(routes) : parse(routes[i].path, path).ok}

First(S) == CHOOSE i \in S : \A j \in S : i <= j

\* the method name a resource answers a verb with
MethodName(verb) ==
    CASE verb = "GET" -> "get"
      [] verb = "HEAD" -> "head"
      [] verb = "PUT" -> "put"
      [] verb = "DELETE" -> "delete"
      [] verb = "OPTIONS" -> "options"
      [] verb = "POST" -> "post"
      [] verb = "PATCH" -> "patch"

-----------------------------------------------------------------------------
(* C1: with layers added in the order 1, 2, .., n, a request that comes back   *)
(* with a response has seen exactly process_request of n, .., 1, then the      *)
(* application's handle_request (inside which alone the route handler runs),   *)
(* then process_response of 1, .., n; a request still under way, or ended by   *)
(* a raising hook, has seen a prefix of that sequence.                         *)
C1_OnionOrder ==
    \A c \in AllCalls :
        LET n == Len(stack[c])
            t == trace[c]
        IN /\ pc[c] # "idle" => stack[c] = middleware
           /\ \A i \in 1..n : stack[c][i].n = n + 1 - i
           /\ IsPrefix(ChainCalls(t), Onion(n))
           /\ Returned(c) => ChainCalls(t) = Onion(n)
           /\ \A i \in 1..Len(t) :
                t[i].ev \in {"construct", "handler", "raise", "exception_handler"}
                => /\ i > n + 1
                   /\ SubSeq(ChainCalls(t), 1, n + 1) = SubSeq(Onion(n), 1, n + 1)
                   /\ \A j \in 1..i : t[j].ev # "process_response"

C1_Witness ==
    \E c \in AllCalls :
        /\ pc[c] = "done"
        /\ Len(stack[c]) = 2
        /\ trace[c] = <<Ev("process_request", 2), Ev("process_request", 1),
                        Ev("handle_request", 0), Ev("handler", 0),
                        Ev("process_response", 1), Ev("process_response", 2)>>

-----------------------------------------------------------------------------
-----------------------------------------------------------------------------
(* C3: whatever the route table holds, a request whose path matches none of    *)
(* its patterns gets status 404 and body "Not Found" from handle_request, and  *)
(* no handler, resource or exception handler is called.                        *)
C3_NotFound ==
    \A c \in AllCalls :
        (PastFind(c) /\ Matching(request[c].path) = {})
        => /\ ~found[c].hit
           /\ response[c].status_code = 404
           /\ response[c].text = "Not Found"
           /\ response[c].json = NONE
           /\ CoreEvents(trace[c]) = <<>>
           /\ pc[c] = "done" => /\ sent[c].status = 404
                                /\ sent[c].body = Bytes("Not Found")

C3_Witness ==
    \E c \in AllCalls :
        /\ pc[c] = "done"
        /\ Len(routes) = 2
        /\ Matching(request[c].path) = {}
        /\ sent[c].status = 404
        /\ sent[c].body = Bytes("Not Found")

-----------------------------------------------------------------------------
(* C4, as claimed: a request whose path matches the pattern of some route with *)
(* a function handler registered under another verb gets 405 "Method Not       *)
(* Allowed" and no handler is called.                                          *)
C4_AnyMatchingRoute ==
    \A c \in AllCalls : \A i \in 1..Len(routes) :
        (/\ Dispatched(c)
         /\ isfunction(routes[i].handler)
         /\ i \in Matching(request[c].path)
         /\ request[c].method # routes[i].method)
        => /\ response[c].status_code = 405
           /\ response[c].text = "Method Not Allowed"
           /\ Count(trace[c], "handler") = 0

(* C4, amended: a request whose path resolves to a route with a function       *)
(* handler (the earliest-registered route whose pattern matches the path)      *)
(* registered under another verb gets 405 "Method Not Allowed" and no handler  *)
(* is called.                                                                  *)
C4_MethodNotAllowed ==
    \A c \in AllCalls :
        LET M == Matching(request[c].path) IN
        (/\ Dispatched(c)
         /\ M # {}
         /\ isfunction(routes[First(M)].handler)
         /\ request[c].method # routes[First(M)].method)
        => /\ response[c].status_code = 405
           /\ response[c].text = "Method Not Allowed"
           /\ response[c].json = NONE
           /\ CoreEvents(trace[c]) = <<>>
           /\ pc[c] = "done" => /\ sent[c].status = 405
                                /\ sent[c].body = Bytes("Method Not Allowed")

C4_Witness ==
    \E c \in AllCalls :
        /\ pc[c] = "done"
        /\ request[c].method = "GET"
        /\ Len(routes) = 1
        /\ routes[1].method = "POST"
        /\ isfunction(routes[1].handler)
        /\ sent[c].status = 405
        /\ sent[c].body = Bytes("Method Not Allowed")

-----------------------------------------------------------------------------
-----------------------------------------------------------------------------
(* C6: with no exception handler registered, a request whose handler raised    *)
(* is answered with status 500 and the exception's message as the body.        *)
C6_Default500 ==
    \A c \in AllCalls :
        (pc[c] = "done" /\ exception_handler = NONE /\ HandlerRaised(trace[c]))
        => /\ sent[c].status = 500
           /\ sent[c].body = Bytes("boom")

-----------------------------------------------------------------------------
(* C7: with an exception handler registered, a request whose handler raised    *)
(* has the exception handler called exactly once on the response of the        *)
(* request, the default 500 is not applied, and the response that goes out     *)
(* carries the assignments the exception handler made to a new Response and    *)
(* no others.                                                                  *)
C7_ExceptionHandlerOnly ==
    \A c \in AllCalls :
        (HandlerRaised(trace[c]) /\ exception_handler # NONE /\ pc[c] # "except")
        => /\ Count(trace[c], "exception_handler") = 1
           /\ Dispatched(c)
              => /\ response[c].status_code # 500
                 /\ response[c].text # "boom"
           /\ pc[c] = "done"
              => \E e \in Effects :
                   /\ e.raises = NONE
                   /\ sent[c] = Transport(set_body_and_content_type(Apply(Response, e)))

-----------------------------------------------------------------------------
(* C8: no call of the entry point ends with an exception: whatever fails       *)
(* during dispatch, the transport gets a response.                             *)
C8_AlwaysResponse ==
    \A c \in AllCalls : pc[c] # "raised"

-----------------------------------------------------------------------------
(* C9: find_handler returns the entry and the extracted parameters of the      *)
(* earliest-registered route whose pattern matches the path, and nothing when  *)
(* no pattern matches.                                                         *)
C9_FirstMatch ==
    \A c \in AllCalls :
        PastFind(c)
        => LET M == Matching(request[c].path) IN
           IF M = {} THEN ~found[c].hit
           ELSE /\ found[c].hit
                /\ found[c].entry = routes[First(M)]
                /\ found[c].named = parse(routes[First(M)].path, request[c].path).named

C9_Witness ==
    \E c \in AllCalls :
        /\ pc[c] = "done"
        /\ request[c].path = <<"/", "a">>
        /\ Len(routes) = 2
        /\ routes[1].path = <<Lit("/"), Field("n", "")>>
        /\ routes[2].path = <<Lit("/"), Lit("a")>>
        /\ routes[1] = Entry(routes[1].path, "GET", "f")
        /\ routes[2] = Entry(routes[2].path, "POST", "Res")
        /\ found[c].entry = routes[1]
        /\ found[c].named = <<<<"n", [ty |-> "str", s |-> "a", n |-> 0]>>>>
        /\ Count(trace[c], "handler") = 1

-----------------------------------------------------------------------------
(* C10: a route with an integer-typed field does not match a path whose        *)
(* segment is not a number, and nothing is raised: the routes registered after *)
(* it are tried, and the answer is 404 only when none of them matches; a       *)
(* segment of digits is matched and converted.                                 *)
TypedPattern == <<Lit("/"), Field("n", "d")>>

NonNumeric(path) ==
    /\ Len(path) >= 2
    /\ path[1] = "/"
    /\ \E k \in 2..Len(path) : path[k] \notin Digits

C10_TypedSkip ==
    \A c \in AllCalls : \A i \in 1..Len(routes) :
        (PastFind(c) /\ routes[i].path = TypedPattern)
        => LET path == request[c].path
               others == {j \in Matching(path) : j # i}
           IN IF NonNumeric(path)
              THEN /\ found[c].hit => found[c].entry # routes[i]
                   /\ others # {} => found[c].hit /\ found[c].entry = routes[First(others)]
                   /\ others = {} => /\ ~found[c].hit
                                     /\ response[c].status_code = 404
                                     /\ response[c].text = "Not Found"
              ELSE /\ found[c].hit
                   /\ (\A j \in others : j > i)
                      => /\ found[c].entry = routes[i]
                         /\ found[c].named = <<<<"n", [ty |-> "int", s |-> "", n |-> 12]>>>>

C10_Witness ==
    \E c \in AllCalls :
        /\ pc[c] = "done"
        /\ request[c].path = <<"/", "a">>
        /\ Len(routes) = 2
        /\ routes[1].path = TypedPattern
        /\ found[c].entry = routes[2]
        /\ Count(trace[c], "handler") = 1
        /\ sent[c].status = 200

-----------------------------------------------------------------------------
(* The object-relational mapper: a program that creates the tables, constructs
   the instances of InitORM and calls the methods of Database on them *)

\* Database.create(table)
create(cls) ==
    /\ db' = execute(db, _get_create_sql(cls)).db
    /\ result' = Outcome("create", cls, NoException)
    /\ UNCHANGED <<inst, web>>

\* a slip in Database.save: the row is inserted, the instance keeps its id
save_without_id(o) ==
    LET cur == execute(db, _get_insert_sql(inst, inst[o])) IN
    /\ db.author.seq + db.book.seq < MaxSaves
    /\ db' = cur.db
    /\ inst' = inst
    /\ result' = Outcome("save", o, cur.raised)
    /\ UNCHANGED web

\* Database.save(instance): insert, then instance._data["id"] = cursor.lastrowid
save(o) ==
    LET cur == execute(db, _get_insert_sql(inst, inst[o])) IN
    /\ db.author.seq + db.book.seq < MaxSaves
    /\ db' = cur.db
    /\ inst' = IF cur.raised = NoException
               THEN [inst EXCEPT ![o].data.id = cur.lastrowid] ELSE inst
    /\ result' = Outcome("save", o, cur.raised)
    /\ UNCHANGED web

\* a slip in Database.update: the statement is built and never executed
update_unexecuted(o) ==
    /\ db' = db
    /\ result' = Outcome("update", o, NoException)
    /\ UNCHANGED <<inst, web>>

\* Database.update(instance)
update(o) ==
    LET cur == execute(db, _get_update_sql(inst, inst[o])) IN
    /\ db' = cur.db
    /\ result' = Outcome("update", o, cur.raised)
    /\ UNCHANGED <<inst, web>>

\* Database.delete(instance)
delete(o) ==
    LET cur == execute(db, _get_delete_sql(inst[o])) IN
    /\ db' = cur.db
    /\ result' = Outcome("delete", o, cur.raised)
    /\ UNCHANGED <<inst, web>>

\* instance.key = value (Table.__setattr__)
setattr(o, key, value) ==
    /\ inst' = [inst EXCEPT ![o] = SetAttr(inst[o], key, value)]
    /\ inst' # inst
    /\ UNCHANGED <<db, result, web>>

\* the assignments the program makes
Assignments ==
    {<<"x", "name", n>> : n \in Names}
      \cup {<<o, "author", a>> : o \in BookObjs, a \in AuthorObjs}

\* the keyword arguments the program passes to get: the id of an instance, a
\* column value, the id and a column value of an instance, or none at all
Queries ==
    {[cls |-> inst[o].cls, kwargs |-> << <<"id", inst[o].data.id>> >>] : o \in Objs}
      \cup {[cls |-> "Author", kwargs |-> << <<"name", n>> >>] : n \in Names}
      \cup {[cls |-> "Author",
             kwargs |-> << <<"id", inst[o].data.id>>, <<"name", inst[o].data.name>> >>] :
               o \in AuthorObjs}
      \cup {[cls |-> "Author", kwargs |-> <<>>]}

\* db.get(table, **kwargs) called by the program
Get(cls, kwargs) ==
    LET r == get(db, cls, kwargs) IN
    /\ result' = [op |-> "get", arg |-> cls, kwargs |-> kwargs, raised |-> r.raised,
                  value |-> r.value, values |-> <<>>]
    /\ UNCHANGED <<db, inst, web>>

\* db.all(table) called by the program
All(cls) ==
    LET r == all(db, cls) IN
    /\ result' = [op |-> "all", arg |-> cls, kwargs |-> <<>>, raised |-> r.raised,
                  value |-> NoInstance, values |-> r.values]
    /\ UNCHANGED <<db, inst, web>>

NextORM ==
    \/ \E cls \in TableClasses : create(cls)
    \/ \E o \in Objs : save(o)
    \/ \E o \in Objs : update(o)
    \/ \E o \in Objs : delete(o)
    \/ \E a \in Assignments : setattr(a[1], a[2], a[3])
    \/ \E q \in Queries : Get(q.cls, q.kwargs)
    \/ \E cls \in TableClasses : All(cls)

SpecORM == Init /\ [][NextORM]_vars

-----------------------------------------------------------------------------
(* Helpers of the properties on literal routes *)

IsLiteral(p) == \A k \in 1..Len(p) : p[k].k = "lit"

\* the path a literal pattern spells
PathOf(p) == [k \in 1..Len(p) |-> p[k].c]

\* the response is what a handler that returned made of a new Response, and the
\* transport, once served, got that response finalized
HandlerOutput(c) ==
    \E e \in Effects :
        /\ e.raises = NONE
        /\ response[c].status_code = (IF e.status = 0 THEN 200 ELSE e.status)
        /\ response[c].text = e.text
        /\ response[c].json = e.json
        /\ response[c].headers \subseteq {<<"Content-Type", response[c].content_type>>}
        /\ pc[c] # "done"
           => /\ response[c].body = Bytes("")
              /\ response[c].content_type = NONE
              /\ response[c].headers = {}
        /\ pc[c] = "done"
           => /\ sent[c].status = response[c].status_code
              /\ sent[c].body = (IF e.json # NONE THEN Bytes(JsonDumps(e.json))
                                 ELSE Bytes(e.text))

(* C11, as claimed: for every registered literal route with a function handler *)
(* and any of the seven verbs, a request for exactly its path under its verb   *)
(* has that route's handler called exactly once, and when the handler returned *)
(* the response is what the handler wrote, status 200 unless it set another.   *)
C11_EveryLiteralRoute ==
    \A c \in AllCalls : \A i \in 1..Len(routes) :
        (/\ Dispatched(c)
         /\ IsLiteral(routes[i].path)
         /\ isfunction(routes[i].handler)
         /\ request[c].path = PathOf(routes[i].path)
         /\ request[c].method = routes[i].method)
        => /\ found[c].entry = routes[i]
           /\ Count(trace[c], "handler") = 1
           /\ ~HandlerRaised(trace[c]) => HandlerOutput(c)

(* C11, amended: the same for every registered literal route with a function   *)
(* handler that no route registered before it shadows (it is the earliest      *)
(* route whose pattern matches its path).                                      *)
C11_LiteralRoute ==
    \A c \in AllCalls : \A i \in 1..Len(routes) :
        (/\ Dispatched(c)
         /\ IsLiteral(routes[i].path)
         /\ isfunction(routes[i].handler)
         /\ request[c].path = PathOf(routes[i].path)
         /\ request[c].method = routes[i].method
         /\ i = First(Matching(request[c].path)))
        => /\ found[c].entry = routes[i]
           /\ Count(trace[c], "handler") = 1
           /\ ~HandlerRaised(trace[c]) => HandlerOutput(c)

C11_Witness ==
    \E c \in AllCalls :
        /\ pc[c] = "done"
        /\ Len(routes) = 2
        /\ routes[1] = Entry(<<Lit("/"), Lit("a")>>, "PATCH", "f")
        /\ request[c].method = "PATCH"
        /\ request[c].path = <<"/", "a">>
        /\ trace[c] = <<Ev("handle_request", 0), Ev("handler", 0)>>
        /\ sent[c].status = 201
        /\ sent[c].body = Bytes("hello")

-----------------------------------------------------------------------------
(* C12: once a layer's process_response has returned a new response object,    *)
(* that object is the response the layer's handle_request returns: the layers  *)
(* outside it and the transport get the replacement (the latest one), not the  *)
(* response that came from inside.                                             *)
C12_ReplacementUsed ==
    \A c \in AllCalls :
        (Dispatched(c) /\ hookret[c] # NoReplacement)
        => /\ pc[c] # "done" => response[c] = hookret[c]
           /\ pc[c] = "done"
              => sent[c] = Transport(set_body_and_content_type(hookret[c]))

-----------------------------------------------------------------------------
(* C13: route(path)(h) leaves the table and the outcome exactly as             *)
(* add_route(path, h, GET) does, and app.<v>(path)(h), for each of the seven   *)
(* verbs V with v its lower-cased name, exactly as add_route(path, h, V) does: *)
(* the entry (V, h) appended under a new path, RuntimeError and the table as   *)
(* it was under a registered one; a decorator that registered returns h.       *)
AsAddRoute(p, h, V) ==
    IF p \in RoutePaths(routes)
    THEN /\ routes' = routes
         /\ raised' = DuplicateRoute(p)
    ELSE /\ routes' = Append(routes, Entry(p, V, h))
         /\ raised' = NoError
         /\ returned' = h

C13_HelpersAsAddRoute ==
    [][ \A p \in VerbPatterns, h \in Handlers :
          /\ route(p, h) => AsAddRoute(p, h, "GET")
          /\ \A V \in HTTPMethods :
                /\ decorate(MethodName(V), p, h) => AsAddRoute(p, h, V)
                /\ (add_route(p, h, V) /\ returned' = NONE)
                   => /\ p \in RoutePaths(routes) => routes' = routes
                      /\ p \notin RoutePaths(routes)
                         => routes' = Append(routes, Entry(p, V, h)) ]_vars

C13_Witness ==
    /\ Len(routes) = 2
    /\ routes[1] = Entry(<<Lit("/"), Field("n", "")>>, "DELETE", "f")
    /\ routes[2] = Entry(<<Lit("/"), Lit("a")>>, "OPTIONS", "Res")
    /\ returned = "Res"
    /\ raised = NoError

-----------------------------------------------------------------------------
(* C14: looking up on the application a name that is neither a real attribute  *)
(* nor the lower-cased name of one of the seven verbs raises RuntimeError      *)
(* "'Plinx' object has no attribute '<name>'" at the access, and no route is   *)
(* registered by the statement.                                                *)
C14_UnknownAttribute ==
    [][ \A name \in AttrNames \ {MethodName(V) : V \in HTTPMethods} :
          \A p \in VerbPatterns, h \in Handlers :
             decorate(name, p, h)
             => /\ routes' = routes
                /\ raised'.type = "RuntimeError"
                /\ raised'.msg = "'Plinx' object has no attribute '" \o name \o "'"
                /\ returned' = NONE ]_vars

C14_Witness ==
    /\ raised.type = "RuntimeError"
    /\ raised.msg = "'Plinx' object has no attribute 'trace'"
    /\ Len(routes) = 1

-----------------------------------------------------------------------------
(* C15: finalization chooses the payload by json, then text, then raw body:    *)
(* with json set the transport gets its JSON encoding as application/json      *)
(* whatever text and body hold; else with text set, the text as text/plain;    *)
(* else the body and content type the response held, unchanged; the status is  *)
(* the response's, 200 for a response nothing touched.                         *)
C15_Precedence ==
    [][ \A c \in AllCalls :
          Finalize(c)
          => LET r == response[c]
                 out == sent'[c]
             IN /\ out.status = r.status_code
                /\ r = Response => out.status = 200 /\ out.body = Bytes("")
                /\ r.json # NONE
                   => /\ out.body = Bytes(JsonDumps(r.json))
                      /\ out.content_type = "application/json"
                /\ (r.json = NONE /\ r.text # NONE)
                   => /\ out.body = Bytes(r.text)
                      /\ out.content_type = "text/plain"
                /\ (r.json = NONE /\ r.text = NONE)
                   => /\ out.body = r.body
                      /\ out.content_type = r.content_type
                /\ out.content_type # NONE
                   => <<"Content-Type", out.content_type>> \in out.headers
                /\ \A e \in r.headers : e[1] # "Content-Type" => e \in out.headers ]_vars

C15_Witness ==
    \E c \in AllCalls :
        /\ pc[c] = "done"
        /\ response[c].json = "{'a': 1}"
        /\ response[c].text = "hello"
        /\ response[c].status_code = 404
        /\ sent[c].body = Bytes("{\"a\": 1}")
        /\ sent[c].content_type = "application/json"
        /\ sent[c].headers = {<<"X-Custom-Header", "Value">>,
                              <<"Content-Type", "application/json">>}

-----------------------------------------------------------------------------
-----------------------------------------------------------------------------
(* Claims about the object-relational mapper *)

\* C17: an instance is constructed with id None and keeps it until it is saved;
\* a save that returns inserts exactly one row, built of the instance's values,
\* and sets the instance's id to the id of that row, which is one more than the
\* number of rows inserted into the table before it (1, 2, 3, ... in save order
\* from a newly created table); no other table and no other instance changes
C17_SaveAssignsId ==
    /\ \A o \in Objs : inst[o].data.id = NoId
    /\ [][/\ \A o \in Objs : inst'[o].data.id # inst[o].data.id => save(o)
          /\ \A o \in Objs :
                save(o) /\ result'.raised = NoException =>
                  LET t == TableName(inst[o].cls)
                      id == inst'[o].data.id
                      new == db'[t].rows \ db[t].rows
                  IN /\ id = db[t].seq + 1
                     /\ db[t].rows \subseteq db'[t].rows
                     /\ Cardinality(new) = 1
                     /\ \A row \in new :
                          /\ row.id = id
                          /\ \A i \in 1..Len(MemberFields(inst[o].cls)) :
                               row[MemberFields(inst[o].cls)[i]] = MemberValues(inst, inst[o])[i]
                     /\ \A u \in DOMAIN db \ {t} : db'[u] = db[u]
                     /\ \A q \in Objs \ {o} : inst'[q] = inst[q]
                     /\ inst'[o] = [inst[o] EXCEPT !.data.id = id]]_vars

\* y received id 3 after x received id 2: three saves into the author table
C17_Witness ==
    /\ result = Outcome("save", "y", NoException)
    /\ inst["x"].data.id = 2
    /\ inst["y"].data.id = 3
    /\ Cardinality(db.author.rows) = 3

-----------------------------------------------------------------------------
\* a row has the value of every criterion of the filter in the column it names
Matches(row, kwargs) ==
    \A i \in 1..Len(kwargs) : SqlEquals(row, kwargs[i][1], kwargs[i][2])

\* C18: whenever get is called on a created table with a filter that no row
\* matches, it raises the exception "<Table> instance with <filter> does not
\* exist" and returns no instance
C18_NotFound ==
    (/\ result.op = "get"
     /\ db[TableName(result.arg)].exists
     /\ ~ \E row \in db[TableName(result.arg)].rows : Matches(row, result.kwargs))
      => /\ result.raised = DoesNotExist(result.arg, result.kwargs)
         /\ result.value = NoInstance

-----------------------------------------------------------------------------
\* the foreign-key attributes of a table class
ForeignKeys(cls) ==
    {Members(cls)[i][1] : i \in {j \in 1..Len(Members(cls)) : Members(cls)[j][2].kind = "ForeignKey"}}

\* what get by id is to return for the instance x: its class, id and column
\* values, each foreign-key attribute as what get of the referenced table by the
\* referenced instance's id returns
Snapshot(d, objs, x) ==
    [cls |-> x.cls,
     data |-> [k \in DOMAIN x.data |->
                 IF k \in ForeignKeys(x.cls)
                 THEN get(d, ForeignTable(x.cls, k), << <<"id", objs[x.data[k]].data.id>> >>).value
                 ELSE x.data[k]]]

\* every instance x refers to is a row of its table (saved, and not deleted)
Resolvable(d, objs, x) ==
    \A k \in ForeignKeys(x.cls) :
       \E row \in d[TableName(ForeignTable(x.cls, k))].rows : row.id = objs[x.data[k]].data.id

\* every reference held in a row of the table is the id of a row
RowsResolvable(d, cls) ==
    \A row \in d[TableName(cls)].rows : \A k \in ForeignKeys(cls) :
       \E r \in d[TableName(ForeignTable(cls, k))].rows : r.id = row[k \o "_id"]

\* get by the id of x returns x as Snapshot describes it
RoundTrip(d, objs, x) ==
    LET r == get(d, x.cls, << <<"id", x.data.id>> >>)
    IN r.raised = NoException /\ r.value = Snapshot(d, objs, x)

\* all returns one instance per row, in id order, each what get by its id returns
OnePerRow(d, cls) ==
    LET r == all(d, cls)
        rows == d[TableName(cls)].rows
    IN /\ r.raised = NoException
       /\ Len(r.values) = Cardinality(rows)
       /\ \A i \in 1..Len(r.values) :
            /\ r.values[i] = get(d, cls, << <<"id", r.values[i].data.id>> >>).value
            /\ \E row \in rows : row.id = r.values[i].data.id
            /\ \A j \in 1..Len(r.values) : i < j => r.values[i].data.id < r.values[j].data.id

-----------------------------------------------------------------------------
\* the instance was saved and its row is there: its id is the id of a row
HasRow(d, x) == \E row \in d[TableName(x.cls)].rows : row.id = x.data.id

\* an update step on the instance named o changes no row but the one with the
\* instance's id, adds and removes none, and changes no instance
OnlyOwnRow(o) ==
    LET t == TableName(inst[o].cls) IN
    /\ \A row \in db[t].rows : row.id # inst[o].data.id => row \in db'[t].rows
    /\ {row.id : row \in db'[t].rows} = {row.id : row \in db[t].rows}
    /\ Cardinality(db'[t].rows) = Cardinality(db[t].rows)
    /\ \A u \in DOMAIN db \ {t} : db'[u] = db[u]
    /\ inst' = inst

-----------------------------------------------------------------------------
(* Claims about handler resolution *)

\* the resource's constructor raised: handler() was called and no method was
ConstructRaised(t) == Count(t, "construct") = 1 /\ Count(t, "handler") = 0 /\ Count(t, "raise") = 1

-----------------------------------------------------------------------------
\* C22: an error raised while the handler is resolved, here by the resource's
\* constructor, is not caught by the failure boundary: the except clause is not
\* entered for it, the exception handler is not called and no 500 response is
\* made of it
C22_BoundaryHandlerBodyOnly ==
    \A c \in SeqCalls :
       Count(trace[c], "construct") = 1 /\ Count(trace[c], "handler") = 0
         /\ Count(trace[c], "raise") >= 1 =>
           /\ pc[c] # "except"
           /\ Count(trace[c], "exception_handler") = 0
           /\ response[c].status_code # INTERNAL_SERVER_ERROR

-----------------------------------------------------------------------------
\* the request's path matches no route
Miss(c) == PastFind(c) /\ ~ found[c].hit

\* the request's path resolved to a function registered under another verb, or
\* to a resource, instantiated, that has no method for the verb
Mismatch(c) ==
    /\ PastFind(c) /\ found[c].hit /\ pc[c] # "resolve"
    /\ LET h == found[c].entry.handler IN
       \/ h \in FunctionHandlers /\ request[c].method # found[c].entry.method
       \/ /\ h \in Resources /\ Lower(request[c].method) \notin Attrs(h)
          /\ Count(trace[c], "construct") = 1 /\ Count(trace[c], "raise") = 0

\* C23: a request that misses every route ends in 404 "Not Found", one that
\* meets a verb mismatch in 405 "Method Not Allowed"; for neither is the except
\* clause entered, the exception handler called or the default 500 applied, and
\* the response goes to the transport with that status and body
C23_MissAndMismatchOrdinary ==
    \A c \in SeqCalls :
       Miss(c) \/ Mismatch(c) =>
         LET status == IF Miss(c) THEN NOT_FOUND ELSE METHOD_NOT_ALLOWED
             text == IF Miss(c) THEN "Not Found" ELSE "Method Not Allowed"
         IN /\ pc[c] \in {"finalize", "done"}
            /\ exc[c] = NONE
            /\ Count(trace[c], "exception_handler") = 0
            /\ Count(trace[c], "handler") = 0
            /\ response[c].status_code = status
            /\ response[c].text = text
            /\ pc[c] = "done" => sent[c].status = status /\ sent[c].body = Bytes(text)

\* with an exception handler registered, a request was answered 405 by a
\* resource without a method for its verb
C23_Witness ==
    /\ exception_handler # NONE
    /\ pc["c1"] = "done"
    /\ Mismatch("c1")
    /\ found["c1"].entry.handler \in Resources
    /\ sent["c1"].status = METHOD_NOT_ALLOWED
    /\ sent["c1"].body = Bytes("Method Not Allowed")

-----------------------------------------------------------------------------
\* C28: the route a request resolves to is the earliest-registered route whose
\* pattern matches the path, whatever the verbs; when that route holds a
\* function registered under another verb the answer is 405 and no handler is
\* called, also when a later route matches the path under the request's verb
C28_NoFallThrough ==
    \A c \in SeqCalls :
       PastFind(c) /\ Matching(request[c].path) # {} =>
         LET i == First(Matching(request[c].path)) IN
         /\ found[c].hit /\ found[c].entry = routes[i]
         /\ (/\ pc[c] # "resolve"
             /\ routes[i].handler \in FunctionHandlers
             /\ routes[i].method # request[c].method) =>
               /\ pc[c] \in {"finalize", "done"}
               /\ Count(trace[c], "handler") = 0
               /\ response[c].status_code = METHOD_NOT_ALLOWED
               /\ response[c].text = "Method Not Allowed"

\* two routes match the path, the later one a function under the request's
\* verb, the earlier one a function under another verb: the answer was 405
C28_Witness ==
    /\ pc["c1"] = "done"
    /\ Len(routes) = 2
    /\ Matching(request["c1"].path) = {1, 2}
    /\ routes[1].handler \in FunctionHandlers /\ routes[2].handler \in FunctionHandlers
    /\ routes[1].method # request["c1"].method
    /\ routes[2].method = request["c1"].method
    /\ sent["c1"].status = METHOD_NOT_ALLOWED
    /\ Count(trace["c1"], "handler") = 0

-----------------------------------------------------------------------------
-----------------------------------------------------------------------------
\* C26: whenever get is called on a created table, whose rows hold only
\* references to existing rows, with one or more criteria, it returns an
\* instance of a row that has the value of every criterion when there is such
\* a row, and raises the not-found exception when there is none
C26_GetAllCriteria ==
    (/\ result.op = "get"
     /\ Len(result.kwargs) >= 1
     /\ db[TableName(result.arg)].exists
     /\ RowsResolvable(db, result.arg)) =>
       LET rows == {row \in db[TableName(result.arg)].rows : Matches(row, result.kwargs)}
       IN IF rows = {}
          THEN result.raised = DoesNotExist(result.arg, result.kwargs)
          ELSE /\ result.raised = NoException
               /\ \E row \in rows : result.value.data.id = row.id

-----------------------------------------------------------------------------
\* C27: is_valid_method of a string is True exactly when the string is the name
\* of one of the seven verbs; get_handler_name_for_method of a string returns
\* it lower-cased when it is such a name and raises
\* ValueError("Invalid HTTP method: <m>") when it is not
C27_ValidityAndName ==
    LET v == outcome["is_valid_method"]
        n == outcome["get_handler_name_for_method"]
    IN /\ (v.called /\ v.arg.kind = "str") => (v.truth <=> v.arg.v \in HTTPMethods)
       /\ (n.called /\ n.arg.kind = "str") =>
             IF n.arg.v \in HTTPMethods
             THEN n.name = Lower(n.arg.v) /\ n.raised = NoError
             ELSE n.raised = ValueError("Invalid HTTP method: " \o n.arg.v)

-----------------------------------------------------------------------------
\* the places of an event in a trace
Occurrences(t, e) == {i \in 1..Len(t) : t[i] = e}

\* C29: a request that came back with a response, whatever its status, has
\* seen the application's handle_request called exactly once and, of every
\* layer registered, process_request exactly once before that call and
\* process_response exactly once after it; with no layer registered it has
\* seen handle_request alone
C29_EachHookOnce ==
    \A c \in SeqCalls :
       Returned(c) =>
          LET t == trace[c]
              core == Occurrences(t, Ev("handle_request", 0))
          IN /\ Cardinality(core) = 1
             /\ stack[c] = middleware
             /\ \A k \in 1..Len(middleware) :
                   LET ins == Occurrences(t, Ev("process_request", middleware[k].n))
                       outs == Occurrences(t, Ev("process_response", middleware[k].n))
                   IN /\ Cardinality(ins) = 1 /\ Cardinality(outs) = 1
                      /\ \A i \in ins, h \in core, o \in outs : i < h /\ h < o
             /\ Count(t, "process_request") = Len(middleware)
             /\ Count(t, "process_response") = Len(middleware)
             /\ middleware = <<>> => ChainCalls(t) = <<Ev("handle_request", 0)>>

\* a request under two layers whose handler raised was answered 500, each
\* layer's hooks called around the application
C29_Witness ==
    /\ pc["c1"] = "done"
    /\ Len(middleware) = 2
    /\ HandlerRaised(trace["c1"])
    /\ sent["c1"].status = INTERNAL_SERVER_ERROR
    /\ Count(trace["c1"], "process_request") = 2
    /\ Count(trace["c1"], "process_response") = 2

-----------------------------------------------------------------------------
\* what belongs to one call
Own(c) ==
    <<pc[c], request[c], stack[c], idx[c], response[c], found[c], exc[c], trace[c],
      sent[c], hookret[c], resource[c]>>

\* what the transport receives of a response
Final(r) == Transport(set_body_and_content_type(r))

\* the responses of a request whose try block raised e with the response at r
Failed(eh, r, e) ==
    IF eh = NONE
    THEN {Final([r EXCEPT !.status_code = INTERNAL_SERVER_ERROR, !.text = e])}
    ELSE {Final(Apply(r, e2)) : e2 \in {x \in Effects : x.raises = NONE}}

\* the responses a request can come back with when it is the only call made of
\* an application of routes rs and exception handler eh, by what the handler
\* and the exception handler do
AloneResponses(rs, eh, req) ==
    LET r == find_handler(rs, req.path)
        h == r.entry.handler
        ran == UNION { IF e.raises = NONE THEN {Final(Apply(Response, e))}
                       ELSE Failed(eh, Apply(Response, e), e.raises) : e \in Effects }
        refused == {Final(MethodNotAllowed(Response))}
    IN IF ~ r.hit THEN {Final(handle_404(Response))}
       ELSE IF h \in Resources
       THEN Failed(eh, Response, "init")
              \cup (IF Lower(req.method) \in Attrs(h) THEN ran ELSE refused)
       ELSE IF req.method # r.entry.method THEN refused
       ELSE ran

\* C24: with calls of the application interleaved in any way, a step of one
\* call changes neither the route table, the exception handler and the chain
\* of layers nor anything of another call, and a call that comes back has a
\* response it can come back with when run alone
C24_Interleaving ==
    /\ [](\A c \in AllCalls :
            pc[c] = "done" =>
               sent[c] \in AloneResponses(routes, exception_handler, request[c]))
    /\ [][\A c \in AllCalls :
            Own(c)' # Own(c) =>
               /\ config' = config
               /\ \A d \in AllCalls \ {c} : Own(d)' = Own(d)]_vars

\* the two calls under way at once, for different requests, one answered 404
\* and the other by its handler
C24_Witness ==
    /\ pc["c1"] = "done" /\ pc["c2"] = "done"
    /\ request["c1"] # request["c2"]
    /\ sent["c1"].status = NOT_FOUND
    /\ Count(trace["c2"], "handler") = 1
    /\ sent["c2"].status = 201

\* C25: the step of a call that enters handle_request leaves the call with a
\* response as PlinxResponse() makes it (or that response answered 404),
\* whatever the call held and whatever other calls hold; the step that makes
\* the resource leaves the call with an instance no request has written to
\* but its own; no step of a call changes the response or the resource of
\* another call
C25_Isolation ==
    /\ [](\A c \in AllCalls : resource[c].hits <= 1)
    /\ [][\A c \in AllCalls :
            /\ (pc[c] = "handle_request" /\ pc'[c] # pc[c]) =>
                  /\ response'[c] \in {Response, handle_404(Response)}
                  /\ resource'[c] = NoResource
            /\ (pc[c] = "resolve" /\ pc'[c] # pc[c]) =>
                  resource'[c] \in {NoResource, New(found[c].entry.handler),
                                    Touch(New(found[c].entry.handler))}
            /\ Own(c)' # Own(c) =>
                  \A d \in AllCalls \ {c} :
                     response'[d] = response[d] /\ resource'[d] = resource[d]]_vars

\* a call holds the response its handler wrote to and its resource while the
\* other call has just entered handle_request and holds a new response
C25_Witness ==
    /\ pc["c1"] \in {"process_response", "finalize"}
    /\ response["c1"].text = "hello"
    /\ resource["c1"] = Touch(New("Res"))
    /\ pc["c2"] = "resolve"
    /\ response["c2"] = Response
    /\ resource["c2"] = NoResource

=============================================================================
